---- MODULE Spec2Model ----
(***************************************************************************)
(* goreq: a fluent HTTP request builder whose Do call runs the request     *)
(* through a chain of transport decorators (Trace, Logging, Timeout)       *)
(* folded over the base transport.                                         *)
(*                                                                         *)
(* Each builder is driven by one goroutine.  A Do call is a small stack    *)
(* machine: the frames of the decorators entered so far, the context of    *)
(* the request each frame received and handed on, and the outcome that     *)
(* travels back up.  The clock `now` is the wall clock read by time.Now(). *)
(***************************************************************************)
EXTENDS Integers, Sequences, FiniteSets, TLC

(* ---------------------------- bounds ----------------------------------- *)
NumBuilders == 2
MaxWrappers == 3
MaxDo == 2
MaxTime == 1
ReuseWrappers == 2
ReuseTime == 1
ConcWrappers == 1
CodecWrappers == 1
MaxQuery == 3
WrapDo == 3
WrapLen == 2

(* time.Second * 5, in seconds *)
DefaultTimeout == 5

Builders == 1..NumBuilders
Durations == {-1, 0, 1}
CallerTimeouts == {1, 7}

(* Go values given to Req: nil, or a struct of one of three types,
     "req":        struct { A string `json:"a"` }             (TestDo)
     "chan":       struct { A string `json:"a"`; C chan int }
     "unexported": struct { A string `json:"a"`; note string } *)
Value(type, A, note) == [type |-> type, A |-> A, note |-> note]
NilValue == Value("nil", "", "")
ReqValues == {NilValue, Value("req", "a", ""), Value("chan", "a", "")}
StructValues ==
    {Value("req", a, "") : a \in {"", "a"}}
        \cup {Value("unexported", "a", n) : n \in {"", "n"}}
        \cup {Value("chan", "", "")}

(* the codecs given to Codec: &JsonCodec{}, or an implementation of the
   caller's own *)
Codecs == {"json", "custom"}
RespTargets == {"nil", "target"}
Payloads == {"json", "malformed"}

(* ---------------------------- values ----------------------------------- *)
NoOutcome == [kind |-> "none", status |-> 0, err |-> "", payload |-> ""]
Response(status, payload) ==
    [kind |-> "resp", status |-> status, err |-> "", payload |-> payload]
Failure(err) == [kind |-> "err", status |-> 0, err |-> err, payload |-> ""]
Panic(err) == [kind |-> "panic", status |-> 0, err |-> err, payload |-> ""]

(* context.TODO() / context.Background(): no deadline, no values *)
Background ==
    [hasDeadline |-> FALSE, deadline |-> 0, traceID |-> 0, otelTrace |-> 0,
     scopes |-> {}]

(* ---------------------------- decorators ------------------------------- *)
TraceTransport(name) == [kind |-> "Trace", name |-> name, duration |-> 0]

LoggingTransport(name) == [kind |-> "Logging", name |-> name, duration |-> 0]

TimeoutTransport(duration) ==
    [kind |-> "Timeout", name |-> "",
     duration |-> IF duration <= 0 THEN DefaultTimeout ELSE duration]

Wrappers ==
    {TraceTransport("demo"), LoggingTransport("demo")}
        \cup {TimeoutTransport(d) : d \in Durations}

(* the non-empty decorator lists of at most n decorators *)
WrapperLists(n) == UNION {[1..k -> Wrappers] : k \in 1..n}

(* ---------------------------- URL -------------------------------------- *)
(* a string is a sequence of characters; the host part "http://x" is written
   as one character *)
(* the URL of the test server, s.URL *)
ServerURL == <<"http://x">>

(* the strings given to URL and to BaseURL *)
URLs ==
    {<<"http://x", "/", "y">>, <<"/", "y">>,
     <<"http://x", "/", "y", "?", "a", "=", "1">>,
     <<"http://x", "/", "y", "#", "f">>}
BaseURLs == {<<>>, <<"http://x">>}

(* the keys and values given to QueryString; the keys in sorted order *)
QueryKeys == <<"a", "b">>
QueryValues == {<<"1">>, <<" ", "&">>}

(* url.QueryEscape, character by character *)
EscapeChar(c) ==
    CASE c = " " -> <<"+">>
      [] c = "&" -> <<"%26">>
      [] c = "=" -> <<"%3D">>
      [] c = "?" -> <<"%3F">>
      [] c = "#" -> <<"%23">>
      [] c = "/" -> <<"%2F">>
      [] c = "+" -> <<"%2B">>
      [] OTHER -> <<c>>

RECURSIVE QueryEscape(_)
QueryEscape(s) ==
    IF s = <<>> THEN <<>> ELSE EscapeChar(Head(s)) \o QueryEscape(Tail(s))

(* the inner loop of Values.Encode: key=value for the values vs[i..] of one
   key, each preceded by & unless the buffer is empty *)
RECURSIVE EncodeKey(_, _, _, _)
EncodeKey(buf, key, vs, i) ==
    IF i > Len(vs) THEN buf
    ELSE EncodeKey(buf \o (IF buf = <<>> THEN <<>> ELSE <<"&">>)
                       \o QueryEscape(<<key>>) \o <<"=">> \o QueryEscape(vs[i]),
                   key, vs, i + 1)

(* url.Values.Encode: the keys in sorted order *)
RECURSIVE EncodeFrom(_, _, _)
EncodeFrom(buf, values, k) ==
    IF k > Len(QueryKeys) THEN buf
    ELSE EncodeFrom(EncodeKey(buf, QueryKeys[k], values[QueryKeys[k]], 1),
                    values, k + 1)

ValuesEncode(values) == EncodeFrom(<<>>, values, 1)

(* len(b.values): the keys of the map *)
LenValues(values) ==
    Cardinality({k \in DOMAIN values : values[k] # <<>>})

(* builder.buildURL, on the fields bd of a builder *)
buildURL(bd) ==
    LET url == IF bd.baseURL # <<>> THEN bd.baseURL \o bd.url ELSE bd.url
    IN IF LenValues(bd.values) # 0
       THEN url \o <<"?">> \o ValuesEncode(bd.values)
       ELSE url

(* ---------------------------- codec ------------------------------------ *)
(* a byte payload: the format it is written in and the fields it holds *)
Data(format, fields) == [format |-> format, fields |-> fields]
NoData == Data("", {})

(* JsonCodec.Encode, json.Marshal: a value of a type with a channel field
   fails; the exported fields are written under their tags, the unexported
   ones are skipped *)
Encode(obj) ==
    IF obj.type = "chan"
    THEN [data |-> NoData, err |-> "EncodingError"]
    ELSE [data |-> Data("json", {<<"a", obj.A>>}), err |-> ""]

(* the value of field `name` in a payload, the zero value when absent *)
FieldOf(data, name) ==
    IF \E f \in data.fields : f[1] = name
    THEN (CHOOSE f \in data.fields : f[1] = name)[2]
    ELSE ""

(* json.NewDecoder(r).Decode(obj) with obj a pointer to a zero value of
   `type`: the exported fields are set from the payload, nothing else is *)
DecodeValue(data, type) ==
    IF data.format # "json"
    THEN [obj |-> Value(type, "", ""), err |-> "DecodingError"]
    ELSE [obj |-> Value(type, FieldOf(data, "a"), ""), err |-> ""]

(* a Codec of the caller's own: it writes every field of the value in a
   format of its own, and accepts only that format *)
CustomEncode(obj) ==
    [data |-> Data("custom", {<<"A", obj.A>>, <<"note", obj.note>>}),
     err |-> ""]

CustomDecodeValue(data, type) ==
    IF data.format # "custom"
    THEN [obj |-> Value(type, "", ""), err |-> "CustomDecodingError"]
    ELSE [obj |-> Value(type, FieldOf(data, "A"), FieldOf(data, "note")),
          err |-> ""]

CustomDecode(readErr, payload) ==
    IF readErr # "" THEN readErr
    ELSE IF payload # "custom" THEN "CustomDecodingError"
    ELSE ""

(* json.NewDecoder(r).Decode: the read of the stream may fail, and malformed
   input fails *)
Decode(readErr, payload) ==
    IF readErr # "" THEN readErr
    ELSE IF payload = "malformed" THEN "DecodingError"
    ELSE ""

(* var defaultCodec = &JsonCodec{} *)
defaultCodec == "json"

(* variant: the codec given to Codec is not looked at *)
MutAlwaysDefaultCodec(bd) == defaultCodec

(* builder.buildCodec, on the fields bd of a builder *)
buildCodec(bd) == IF bd.codec = "nil" THEN defaultCodec ELSE bd.codec

(* codec.Encode(obj), codec.Decode(r, obj): the call through the interface *)
CodecEncode(codec, obj) ==
    IF codec = "json" THEN Encode(obj) ELSE CustomEncode(obj)

CodecDecode(codec, readErr, payload) ==
    IF codec = "json" THEN Decode(readErr, payload)
    ELSE CustomDecode(readErr, payload)

CodecDecodeValue(codec, data, type) ==
    IF codec = "json" THEN DecodeValue(data, type)
    ELSE CustomDecodeValue(data, type)

(* ---------------------------- context ---------------------------------- *)
(* variant: context.WithTimeout(context.Background(), d) *)
MutWithTimeoutDetached(ctx, t, d, scope) ==
    [ctx EXCEPT !.hasDeadline = TRUE, !.deadline = t + d, !.scopes = {scope}]

(* context.WithTimeout(parent, d): the earlier of the parent's deadline and
   now + d, cancellable through `scope` *)
WithTimeout(ctx, t, d, scope) ==
    [ctx EXCEPT !.hasDeadline = TRUE,
                !.deadline = IF ctx.hasDeadline /\ ctx.deadline < t + d
                             THEN ctx.deadline ELSE t + d,
                !.scopes = @ \cup {scope}]

contextWithTraceID(ctx, traceID) == [ctx EXCEPT !.traceID = traceID]

traceIDFromContext(ctx) == ctx.traceID

(* the cancel function of the context the caller made for Do; the cancel
   function of a Timeout decorator is named by the decorator's index, >= 1 *)
CallerScope == 0

(* ctx.Err() at time t, given the cancel functions called so far *)
CtxErr(ctx, t, cancelled) ==
    IF ctx.scopes \cap cancelled # {} THEN "context canceled"
    ELSE IF ctx.hasDeadline /\ ctx.deadline <= t THEN "context deadline exceeded"
    ELSE ""

(* ---------------------------- composition ------------------------------ *)
(* variant: the wrapper is put next to the base transport, inside the
   decorators applied before it *)
MutWrapInside(w, i, transport) == transport \o <<[w |-> w, index |-> i]>>

(* transportWrapper(transport): the returned transport runs the wrapper's
   code and then calls `transport` as next; a transport is written as the
   sequence of decorators in call order, the base transport after the last *)
WrapperApply(w, i, transport) == <<[w |-> w, index |-> i]>> \o transport

RECURSIVE ComposeFrom(_, _, _)
ComposeFrom(wrappers, i, transport) ==
    IF i > Len(wrappers) THEN transport
    ELSE ComposeFrom(wrappers, i + 1, WrapperApply(wrappers[i], i, transport))

(* the loop of buildTransport over http.DefaultTransport *)
Compose(wrappers) == ComposeFrom(wrappers, 1, <<>>)

(* ---------------------------- state ------------------------------------ *)
VARIABLES
    builder,   \* builder[b]: the fields of builder b
    do,        \* do[b]: the Do call of builder b's goroutine
    logger,    \* the package-level *zap.Logger: the fields bound so far
    now,       \* the wall clock
    scenario   \* how the builders are used: which goroutines run, how often
               \* a builder is reused, how long its decorator list gets

vars == <<builder, do, logger, now, scenario>>

NewBuilder ==
    [baseURL |-> <<>>,
     url |-> <<>>,
     values |-> [k \in {QueryKeys[i] : i \in DOMAIN QueryKeys} |-> <<>>],
     transportWrappers |-> <<>>,
     rebuildTransport |-> 1,
     cachedTransport |-> <<>>,
     codec |-> "nil",
     req |-> NilValue,
     resp |-> "nil",
     target |-> "",
     header |-> {},
     builds |-> 0,
     calls |-> 0]

(* New().URL(s.URL): a builder with the URL of the server *)
Fresh == [NewBuilder EXCEPT !.url = ServerURL]

IdleDo ==
    [pc |-> "idle",
     entry |-> NewBuilder,
     ctx |-> Background,
     httpReq |-> Background,
     url |-> <<>>,
     codec |-> defaultCodec,
     body |-> NoData,
     gotReq |-> NilValue,
     client |-> <<>>,
     stack |-> <<>>,
     ret |-> NoOutcome,
     result |-> "",
     events |-> <<>>,
     cancelled |-> {},
     spans |-> {},
     ended |-> {},
     baseCtx |-> Background,
     answeredAt |-> 0,
     reads |-> 0,
     closed |-> 0]

Init ==
    /\ builder = [b \in Builders |-> Fresh]
    /\ do = [b \in Builders |-> IdleDo]
    /\ logger = <<>>
    /\ now = 0
    /\ scenario = [builders |-> {1}, calls |-> 1,
                   wrappers |-> MaxWrappers, clock |-> MaxTime]

(* ---------------------------- helpers ---------------------------------- *)
(* what an instrumented transport records: a frame entered, a frame left with
   the outcome it received from its inner call and the one it passed on, a
   record written by the logger *)
Event(op, f, inner, out, fields) ==
    [op |-> op, index |-> f.index, kind |-> f.w.kind,
     f |-> [f EXCEPT !.tmp = <<>>, !.res = NoOutcome],
     inner |-> inner, out |-> out, fields |-> fields]

Frame(d, rIn, rOut, phase) ==
    [w |-> d.w, index |-> d.index, phase |-> phase, rIn |-> rIn, rOut |-> rOut,
     start |-> 0, handedAt |-> 0, cancel |-> 0, span |-> 0,
     res |-> NoOutcome, tmp |-> <<>>]

(* the call of http.DefaultTransport, index 0 of every chain *)
BaseFrame(r) ==
    Frame([w |-> [kind |-> "Base", name |-> "", duration |-> 0], index |-> 0],
          r, r, "called")

Top(b) == do[b].stack[Len(do[b].stack)]

Pop(stack) == SubSeq(stack, 1, Len(stack) - 1)

SetTop(stack, f) == [stack EXCEPT ![Len(stack)] = f]

(* the request the next transport in the chain receives *)
Request(b) == IF do[b].stack = <<>> THEN do[b].httpReq ELSE Top(b).rOut

Ready(b) == b \in scenario.builders /\ do[b].pc \in {"idle", "done"}

(* a builder is configured only while a Do call on it is still to come *)
Configurable(b) == Ready(b) /\ builder[b].calls < scenario.calls

Running(b) == b \in scenario.builders /\ do[b].pc \notin {"idle", "done", "panicked"}

(* the next decorator of the composed transport to be called *)
NextIs(b, kind) ==
    /\ b \in scenario.builders
    /\ do[b].pc = "send"
    /\ do[b].stack # <<>> => Top(b).phase = "called"
    /\ Len(do[b].stack) < Len(do[b].client)
    /\ do[b].client[Len(do[b].stack) + 1].w.kind = kind

(* the inner call of the top frame has come back *)
BackAt(b, kind, phase) ==
    /\ b \in scenario.builders
    /\ do[b].pc = "unwind"
    /\ do[b].stack # <<>>
    /\ Top(b).w.kind = kind
    /\ Top(b).phase = phase

(* a trace identifier no other span of the process has *)
FreshTraceID(b, index) ==
    (b * (MaxDo + 1) + builder[b].calls) * (MaxWrappers + 2) + index

(* ---------------------------- builder ---------------------------------- *)
WrapTransport(b, transportWrappers) ==
    /\ Configurable(b)
    /\ Len(builder[b].transportWrappers) + Len(transportWrappers) <= scenario.wrappers
    /\ builder' = [builder EXCEPT
                     ![b].transportWrappers = @ \o transportWrappers,
                     ![b].builds = 0]
    /\ UNCHANGED <<do, logger, now, scenario>>

Req(b, req) ==
    /\ Configurable(b)
    /\ builder' = [builder EXCEPT ![b].req = req]
    /\ UNCHANGED <<do, logger, now, scenario>>

Resp(b, resp) ==
    /\ Configurable(b)
    /\ builder' = [builder EXCEPT ![b].resp = resp]
    /\ UNCHANGED <<do, logger, now, scenario>>

URL(b, url) ==
    /\ Configurable(b)
    /\ builder' = [builder EXCEPT ![b].url = url]
    /\ UNCHANGED <<do, logger, now, scenario>>

BaseURL(b, baseURL) ==
    /\ Configurable(b)
    /\ builder' = [builder EXCEPT ![b].baseURL = baseURL]
    /\ UNCHANGED <<do, logger, now, scenario>>

(* b.values.Add(key, value) *)
QueryString(b, key, value) ==
    /\ Configurable(b)
    /\ Len(builder[b].values["a"]) + Len(builder[b].values["b"]) < MaxQuery
    /\ builder' = [builder EXCEPT ![b].values[key] = Append(@, value)]
    /\ UNCHANGED <<do, logger, now, scenario>>

Codec(b, codec) ==
    /\ Configurable(b)
    /\ builder' = [builder EXCEPT ![b].codec = codec]
    /\ UNCHANGED <<do, logger, now, scenario>>

(* variant: the error of Encode is dropped *)
MutEncodeIgnored(b) == FALSE

(* if b.req != nil { data, err := codec.Encode(b.req); if err != nil {...} } *)

EncodeFails(b) ==
    /\ builder[b].req # NilValue
    /\ CodecEncode(buildCodec(builder[b]), builder[b].req).err # ""

(* Do up to httpReq.Header = b.header *)
Do(b, ctx) ==
    /\ Ready(b)
    /\ builder[b].calls < scenario.calls
    /\ builder' = [builder EXCEPT ![b].calls = @ + 1]
    /\ LET codec == buildCodec(builder[b])
           enc == CodecEncode(codec, builder[b].req)
       IN do' = [do EXCEPT ![b] =
                   IF EncodeFails(b)
                   THEN [IdleDo EXCEPT !.pc = "done", !.entry = builder[b],
                                       !.ctx = ctx, !.codec = codec,
                                       !.url = buildURL(builder[b]),
                                       !.result = enc.err]
                   ELSE [IdleDo EXCEPT !.pc = "build", !.entry = builder[b],
                                       !.ctx = ctx, !.codec = codec,
                                       !.url = buildURL(builder[b]),
                                       !.httpReq = ctx,
                                       !.body = IF builder[b].req = NilValue
                                                THEN NoData ELSE enc.data]]
    /\ UNCHANGED <<logger, now, scenario>>

(* atomic.StoreInt32(&b.rebuildTransport, 1) *)
RebuiltFlag == 1

(* variant: the flag is cleared after a build, and nothing sets it again *)
MutBuildOnce(b) ==
    IF builder[b].rebuildTransport # 1
    THEN [transport |-> builder[b].cachedTransport, b |-> builder[b]]
    ELSE [transport |-> Compose(builder[b].transportWrappers),
          b |-> [builder[b] EXCEPT
                   !.cachedTransport = Compose(builder[b].transportWrappers),
                   !.rebuildTransport = 0,
                   !.builds = @ + 1]]

buildTransport(b) ==
    IF builder[b].rebuildTransport # 1
    THEN [transport |-> builder[b].cachedTransport, b |-> builder[b]]
    ELSE [transport |-> Compose(builder[b].transportWrappers),
          b |-> [builder[b] EXCEPT
                   !.cachedTransport = Compose(builder[b].transportWrappers),
                   !.rebuildTransport = RebuiltFlag,
                   !.builds = @ + 1]]

buildClient(b) ==
    /\ b \in scenario.builders
    /\ do[b].pc = "build"
    /\ builder' = [builder EXCEPT ![b] = buildTransport(b).b]
    /\ do' = [do EXCEPT ![b].client = buildTransport(b).transport,
                        ![b].pc = "send"]
    /\ UNCHANGED <<logger, now, scenario>>

(* ---------------------------- Trace ------------------------------------ *)
(* tracer.Start, Inject, contextWithTraceID, r.WithContext, next.RoundTrip *)
TraceEnter(b) ==
    /\ NextIs(b, "Trace")
    /\ LET d == do[b].client[Len(do[b].stack) + 1]
           r == Request(b)
           traceID == IF r.otelTrace # 0 THEN r.otelTrace
                      ELSE FreshTraceID(b, d.index)
           ctx == contextWithTraceID([r EXCEPT !.otelTrace = traceID], traceID)
           f == [Frame(d, r, ctx, "called") EXCEPT !.span = d.index]
       IN /\ do' = [do EXCEPT
                      ![b].stack = Append(@, f),
                      ![b].spans = @ \cup {d.index},
                      ![b].events = Append(@,
                          Event("enter", f, NoOutcome, NoOutcome, <<>>))]
          /\ builder' = [builder EXCEPT ![b].header =
                           {h \in @ : h[1] # "traceparent"}
                               \cup {<<"traceparent", traceID>>}]
    /\ UNCHANGED <<logger, now, scenario>>

(* spans the Trace decorator ends on return: the code never calls span.End *)
SpansEndedOnReturn(f) == {}

TraceReturn(b) ==
    /\ BackAt(b, "Trace", "called")
    /\ do' = [do EXCEPT
                ![b].stack = Pop(@),
                ![b].ended = @ \cup SpansEndedOnReturn(Top(b)),
                ![b].events = Append(@,
                    Event("exit", Top(b), do[b].ret, do[b].ret, <<>>))]
    /\ UNCHANGED <<builder, logger, now, scenario>>

(* ---------------------------- Logging ---------------------------------- *)
(* start := time.Now(); defer func() {...}(); next.RoundTrip(r) *)
LoggingEnter(b) ==
    /\ NextIs(b, "Logging")
    /\ LET d == do[b].client[Len(do[b].stack) + 1]
           r == Request(b)
           f == [Frame(d, r, r, "called") EXCEPT !.start = now]
       IN do' = [do EXCEPT
                   ![b].stack = Append(@, f),
                   ![b].events = Append(@,
                       Event("enter", f, NoOutcome, NoOutcome, <<>>))]
    /\ UNCHANGED <<builder, logger, now, scenario>>

Field(key, str, num) == [key |-> key, str |-> str, num |-> num]

(* the fields of the six With calls of the deferred function *)
LogFields(b, f) ==
    <<Field("host", "host", 0), Field("host", "path", 0),
      Field("service", f.w.name, 0), Field("start", "", f.start),
      Field("elapsed", "", now - f.start),
      Field("trace_id", "", traceIDFromContext(f.rIn))>>

(* the named results when the deferred function runs: resp, err of the inner
   call, or both nil when the inner call panicked before the assignment *)
NamedResults(ret) == IF ret.kind = "panic" THEN NoOutcome ELSE ret

(* logger.With(...)...With(...): reads the package-level logger *)
LoggingWith(b) ==
    /\ BackAt(b, "Logging", "called")
    /\ do' = [do EXCEPT ![b].stack = SetTop(@,
                [Top(b) EXCEPT !.phase = "store",
                               !.res = NamedResults(do[b].ret),
                               !.tmp = logger \o LogFields(b, Top(b))])]
    /\ UNCHANGED <<builder, logger, now, scenario>>

(* logger = ...: writes the package-level logger *)
LoggingStore(b) ==
    /\ BackAt(b, "Logging", "store")
    /\ logger' = Top(b).tmp
    /\ do' = [do EXCEPT ![b].stack = SetTop(@,
                [Top(b) EXCEPT !.phase =
                    IF Top(b).res.kind = "resp" THEN "status" ELSE "info"])]
    /\ UNCHANGED <<builder, now, scenario>>

(* if resp != nil: logger.With(zap.Int("statuscode", resp.StatusCode)) *)
LoggingStatusWith(b) ==
    /\ BackAt(b, "Logging", "status")
    /\ do' = [do EXCEPT ![b].stack = SetTop(@,
                [Top(b) EXCEPT !.phase = "storeStatus",
                               !.tmp = Append(logger,
                                   Field("statuscode", "", Top(b).res.status))])]
    /\ UNCHANGED <<builder, logger, now, scenario>>

LoggingStatusStore(b) ==
    /\ BackAt(b, "Logging", "storeStatus")
    /\ logger' = Top(b).tmp
    /\ do' = [do EXCEPT ![b].stack = SetTop(@, [Top(b) EXCEPT !.phase = "info"])]
    /\ UNCHANGED <<builder, now, scenario>>

(* variant: logger.Info inside the if resp != nil *)
MutInfoOnResponseOnly(f, fields) ==
    IF f.res.kind = "resp"
    THEN <<Event("log", f, NoOutcome, NoOutcome, fields)>>
    ELSE <<>>

(* the records logger.Info("client_request") writes: one, with the fields the
   package-level logger holds at that moment *)
LoggerInfo(f, fields) ==
    <<Event("log", f, NoOutcome, NoOutcome, fields)>>

(* logger.Info, then the decorator returns what the inner call returned *)
LoggingInfo(b) ==
    /\ BackAt(b, "Logging", "info")
    /\ do' = [do EXCEPT
                ![b].stack = Pop(@),
                ![b].events = @ \o LoggerInfo(Top(b), logger) \o
                    <<Event("exit", Top(b), do[b].ret, do[b].ret, <<>>)>>]
    /\ UNCHANGED <<builder, logger, now, scenario>>

(* ---------------------------- Timeout ---------------------------------- *)
(* variant: a context that has a deadline is never given another *)
MutOnlyWhenNoDeadline(ctx, t, duration) == ~ctx.hasDeadline

(* variant: ok && deadline.After(...), a context with no deadline gets none *)
MutOnlyWhenLaterDeadline(ctx, t, duration) ==
    ctx.hasDeadline /\ ctx.deadline > t + duration

(* !ok || deadline.After(time.Now().Add(duration)) *)

NeedsTimeout(ctx, t, duration) ==
    ~ctx.hasDeadline \/ ctx.deadline > t + duration

(* ctx := r.Context(); deadline, ok := ctx.Deadline(); the test of the if *)
TimeoutEnter(b) ==
    /\ NextIs(b, "Timeout")
    /\ LET d == do[b].client[Len(do[b].stack) + 1]
           r == Request(b)
           f == IF NeedsTimeout(r, now, d.w.duration)
                THEN Frame(d, r, r, "derive")
                ELSE [Frame(d, r, r, "called") EXCEPT !.handedAt = now]
       IN do' = [do EXCEPT
                   ![b].stack = Append(@, f),
                   ![b].events = Append(@,
                       Event("enter", f, NoOutcome, NoOutcome, <<>>))]
    /\ UNCHANGED <<builder, logger, now, scenario>>

(* ctx, cancel = context.WithTimeout(r.Context(), duration); r.WithContext *)
TimeoutDerive(b) ==
    /\ b \in scenario.builders
    /\ do[b].pc = "send"
    /\ do[b].stack # <<>>
    /\ Top(b).phase = "derive"
    /\ do' = [do EXCEPT ![b].stack = SetTop(@,
                [Top(b) EXCEPT
                   !.phase = "called",
                   !.cancel = Top(b).index,
                   !.handedAt = now,
                   !.rOut = WithTimeout(Top(b).rIn, now, Top(b).w.duration,
                                        Top(b).index)])]
    /\ UNCHANGED <<builder, logger, now, scenario>>

(* defer cancel(): calling the nil cancel of the untaken branch panics *)
CallCancel(f, ret) ==
    IF f.cancel = 0
    THEN [ret |-> Panic("nil pointer dereference"), cancelled |-> {}]
    ELSE [ret |-> ret, cancelled |-> {f.cancel}]

TimeoutReturn(b) ==
    /\ BackAt(b, "Timeout", "called")
    /\ LET c == CallCancel(Top(b), do[b].ret)
       IN do' = [do EXCEPT
                   ![b].stack = Pop(@),
                   ![b].ret = c.ret,
                   ![b].cancelled = @ \cup c.cancelled,
                   ![b].events = Append(@,
                       Event("exit", Top(b), do[b].ret, c.ret, <<>>))]
    /\ UNCHANGED <<builder, logger, now, scenario>>

(* ---------------------------- base transport --------------------------- *)
(* the handler of the server: when the request has a body it decodes the
   body, with the codec of the client, into a zero value of the type sent *)
ServerDecode(d) ==
    IF d.body = NoData THEN NilValue
    ELSE CodecDecodeValue(d.codec, d.body, d.entry.req.type).obj

(* http.DefaultTransport.RoundTrip receives the request of the last frame *)
BaseSend(b) ==
    /\ b \in scenario.builders
    /\ do[b].pc = "send"
    /\ do[b].stack # <<>> => Top(b).phase = "called"
    /\ Len(do[b].stack) = Len(do[b].client)
    /\ do' = [do EXCEPT
                ![b].pc = "base",
                ![b].baseCtx = Request(b),
                ![b].gotReq = ServerDecode(do[b]),
                ![b].events = Append(@,
                    Event("enter", BaseFrame(Request(b)), NoOutcome, NoOutcome,
                          <<>>))]
    /\ UNCHANGED <<builder, logger, now, scenario>>

(* what the network call can come back with: the context's error once the
   context is done, else a response or a transport error *)
BaseOutcomes(ctx, t, cancelled) ==
    IF CtxErr(ctx, t, cancelled) # ""
    THEN {Failure(CtxErr(ctx, t, cancelled))}
    ELSE {Response(200, p) : p \in Payloads} \cup {Failure("connection refused")}

BaseReturn(b, out) ==
    /\ b \in scenario.builders
    /\ do[b].pc = "base"
    /\ out \in BaseOutcomes(do[b].baseCtx, now, do[b].cancelled)
    /\ do' = [do EXCEPT
                ![b].pc = "unwind",
                ![b].ret = out,
                ![b].answeredAt = now,
                ![b].events = Append(@,
                    Event("exit", BaseFrame(do[b].baseCtx), out, out, <<>>))]
    /\ UNCHANGED <<builder, logger, now, scenario>>

(* ---------------------------- Do, after client.Do ---------------------- *)
(* reading the response body: the request's context governs the read, so
   once it is done the read may already have the bytes or may fail *)
BodyReadErrs(ctx, t, cancelled) == {"", CtxErr(ctx, t, cancelled)}

(* variant: the body is closed on the success path only *)
MutCloseOnSuccess(d) == IF d.result = "" THEN [d EXCEPT !.closed = @ + 1] ELSE d

(* defer httpResp.Body.Close(): runs when Do returns, on every path that
   follows the check of client.Do's error *)
BodyClose(d) == [d EXCEPT !.closed = @ + 1]

(* if err != nil return err; defer Body.Close(); decode into b.resp *)
DoReturn(b, readErr) ==
    /\ b \in scenario.builders
    /\ do[b].pc = "unwind"
    /\ do[b].stack = <<>>
    /\ readErr \in BodyReadErrs(do[b].baseCtx, now, do[b].cancelled)
    /\ LET ret == do[b].ret
           derr == CodecDecode(do[b].codec, readErr, ret.payload)
       IN IF ret.kind = "panic"
          THEN /\ do' = [do EXCEPT ![b].pc = "panicked", ![b].result = ret.err]
               /\ UNCHANGED builder
          ELSE IF ret.kind = "err"
          THEN /\ do' = [do EXCEPT ![b].pc = "done", ![b].result = ret.err]
               /\ UNCHANGED builder
          ELSE IF builder[b].resp = "nil"
          THEN /\ do' = [do EXCEPT ![b] =
                           BodyClose([@ EXCEPT !.pc = "done", !.result = ""])]
               /\ UNCHANGED builder
          ELSE /\ do' = [do EXCEPT ![b] =
                           BodyClose([@ EXCEPT !.pc = "done", !.result = derr,
                                               !.reads = @ + 1])]
               /\ builder' = [builder EXCEPT ![b].target =
                                IF derr = "" THEN ret.payload ELSE @]
    /\ UNCHANGED <<logger, now, scenario>>

(* ---------------------------- clock ------------------------------------ *)
(* a goroutine at a point where it waits or where two clock reads of one
   decision lie apart: the network call, the body read that follows it, and
   between time.Now() and context.WithTimeout in the Timeout decorator *)
Waiting(b) ==
    /\ Running(b)
    /\ \/ do[b].pc = "base"
       \/ do[b].pc = "unwind" /\ do[b].stack = <<>>
       \/ do[b].stack # <<>> /\ Top(b).phase = "derive"

Tick ==
    /\ now < scenario.clock
    /\ \E b \in Builders : Waiting(b)
    /\ now' = now + 1
    /\ UNCHANGED <<builder, do, logger, scenario>>

(* ---------------------------- caller ----------------------------------- *)
(* the contexts Do is called with: context.TODO(), or the context of a
   context.WithTimeout the caller holds the cancel function of *)
CallerContexts ==
    {Background} \cup
    {WithTimeout(Background, now, d, CallerScope) : d \in CallerTimeouts}

(* the caller cancels the context it passed to Do while the call waits; the
   cancel of a context that is already done changes nothing *)
CallerCancel(b) ==
    /\ Waiting(b)
    /\ CallerScope \in do[b].ctx.scopes
    /\ CtxErr(do[b].ctx, now, do[b].cancelled) = ""
    /\ do' = [do EXCEPT ![b].cancelled = @ \cup {CallerScope}]
    /\ UNCHANGED <<builder, logger, now, scenario>>

(* ---------------------------- specification ---------------------------- *)

(* the caller calls Do *)
Call == \E b \in Builders, ctx \in CallerContexts : Do(b, ctx)

(* the steps of a Do call and of the transports it runs through *)
Run ==
    \/ \E b \in Builders : buildClient(b)
    \/ \E b \in Builders : TraceEnter(b)
    \/ \E b \in Builders : TraceReturn(b)
    \/ \E b \in Builders : LoggingEnter(b)
    \/ \E b \in Builders : LoggingWith(b)
    \/ \E b \in Builders : LoggingStore(b)
    \/ \E b \in Builders : LoggingStatusWith(b)
    \/ \E b \in Builders : LoggingStatusStore(b)
    \/ \E b \in Builders : LoggingInfo(b)
    \/ \E b \in Builders : TimeoutEnter(b)
    \/ \E b \in Builders : TimeoutDerive(b)
    \/ \E b \in Builders : TimeoutReturn(b)
    \/ \E b \in Builders : BaseSend(b)
    \/ \E b \in Builders :
          \E out \in BaseOutcomes(do[b].baseCtx, now, do[b].cancelled) :
             BaseReturn(b, out)
    \/ \E b \in Builders :
          \E e \in BodyReadErrs(do[b].baseCtx, now, do[b].cancelled) :
             DoReturn(b, e)

Step == Call \/ Run \/ Tick

(* the decorator lists a WrapTransport call on b is given *)
WrapArgs(b) ==
    IF Configurable(b)
    THEN WrapperLists(scenario.wrappers - Len(builder[b].transportWrappers))
    ELSE {}

(* the configuration calls of the fluent interface *)
Configure ==
    \/ \E b \in Builders : \E ws \in WrapArgs(b) : WrapTransport(b, ws)
    \/ \E b \in Builders, v \in ReqValues : Req(b, v)
    \/ \E b \in Builders, t \in RespTargets : Resp(b, t)

(* what the caller does while a Do call runs *)
Cancel == \E b \in Builders : CallerCancel(b)

Next == Configure \/ Step \/ Cancel

(* the lifecycle the builder is made for: created for one request, configured,
   consumed by a single Do *)
Spec == Init /\ [][Next]_vars

(* one builder reused for several requests, reconfigured in between *)
ReuseInit ==
    /\ builder = [b \in Builders |-> Fresh]
    /\ do = [b \in Builders |-> IdleDo]
    /\ logger = <<>>
    /\ now = 0
    /\ scenario = [builders |-> {1}, calls |-> MaxDo,
                   wrappers |-> ReuseWrappers, clock |-> ReuseTime]

ReuseSpec == ReuseInit /\ [][Next]_vars

(* independent builders, each consumed by one Do, in concurrent goroutines *)
Configured ==
    {Fresh} \cup
    {[Fresh EXCEPT !.transportWrappers = ws] :
        ws \in WrapperLists(ConcWrappers)}

ConcInit ==
    /\ builder \in [Builders -> Configured]
    /\ do = [b \in Builders |-> IdleDo]
    /\ logger = <<>>
    /\ now = 0
    /\ scenario = [builders |-> Builders, calls |-> 1,
                   wrappers |-> ConcWrappers, clock |-> ReuseTime]

ConcSpec == ConcInit /\ [][Step]_vars

(* one builder given decorators before, between and after its Do calls *)
WrapInit ==
    /\ builder = [b \in Builders |-> Fresh]
    /\ do = [b \in Builders |-> IdleDo]
    /\ logger = <<>>
    /\ now = 0
    /\ scenario = [builders |-> {1}, calls |-> WrapDo,
                   wrappers |-> WrapLen, clock |-> 0]

WrapNext ==
    \/ \E b \in Builders : \E ws \in WrapArgs(b) : WrapTransport(b, ws)
    \/ \E b \in Builders : Do(b, Background)
    \/ Run

WrapSpec == WrapInit /\ [][WrapNext]_vars

(* one builder given any request value and any codec, consumed by one Do *)
CodecInit ==
    /\ builder = [b \in Builders |-> Fresh]
    /\ do = [b \in Builders |-> IdleDo]
    /\ logger = <<>>
    /\ now = 0
    /\ scenario = [builders |-> {1}, calls |-> 1,
                   wrappers |-> CodecWrappers, clock |-> ReuseTime]

CodecConfigure ==
    \/ \E b \in Builders, c \in Codecs : Codec(b, c)
    \/ \E b \in Builders, v \in StructValues : Req(b, v)

CodecSpec == CodecInit /\ [][Next \/ CodecConfigure]_vars

(* one builder given any URL, base URL and query parameters, consumed by one
   Do through the base transport alone *)
URLInit ==
    /\ builder = [b \in Builders |-> NewBuilder]
    /\ do = [b \in Builders |-> IdleDo]
    /\ logger = <<>>
    /\ now = 0
    /\ scenario = [builders |-> {1}, calls |-> 1,
                   wrappers |-> 0, clock |-> ReuseTime]

URLConfigure ==
    \/ \E b \in Builders, u \in URLs : URL(b, u)
    \/ \E b \in Builders, u \in BaseURLs : BaseURL(b, u)
    \/ \E b \in Builders, k \in {"a", "b"}, v \in QueryValues :
          QueryString(b, k, v)

URLNext ==
    \/ URLConfigure
    \/ \E b \in Builders, ctx \in CallerContexts : Do(b, ctx)
    \/ \E b \in Builders : buildClient(b)
    \/ \E b \in Builders : BaseSend(b)
    \/ \E b \in Builders :
          \E out \in BaseOutcomes(do[b].baseCtx, now, do[b].cancelled) :
             BaseReturn(b, out)
    \/ \E b \in Builders :
          \E e \in BodyReadErrs(do[b].baseCtx, now, do[b].cancelled) :
             DoReturn(b, e)
    \/ Tick

URLSpec == URLInit /\ [][URLNext]_vars

(* ======================================================================= *)
(* Properties                                                              *)
(* ======================================================================= *)
IsPrefix(s, t) == Len(s) <= Len(t) /\ SubSeq(t, 1, Len(s)) = s

Started(b) == do[b].pc # "idle"

Finished(b) == do[b].pc \in {"done", "panicked"}

(* the decorator list the call was started with *)
Given(b) == do[b].entry.transportWrappers

(* the entries and exits of transports a call has recorded, in order *)
Invocations(b) ==
    LET calls == SelectSeq(do[b].events, LAMBDA e : e.op # "log")
    IN [k \in 1..Len(calls) |-> <<calls[k].op, calls[k].index>>]

LogsOf(b, i) ==
    {k \in 1..Len(do[b].events) :
        do[b].events[k].op = "log" /\ do[b].events[k].index = i}

Exits(b) == {k \in 1..Len(do[b].events) : do[b].events[k].op = "exit"}

(* Dn, ..., D1, base going in; base, D1, ..., Dn coming back *)
LastFirstOrder(n) ==
    [k \in 1..n |-> <<"enter", n + 1 - k>>]
        \o <<(<<"enter", 0>>), (<<"exit", 0>>)>>
        \o [k \in 1..n |-> <<"exit", k>>]

(* D1, ..., Dn, base going in; base, Dn, ..., D1 coming back *)
FirstFirstOrder(n) ==
    [k \in 1..n |-> <<"enter", k>>]
        \o <<(<<"enter", 0>>), (<<"exit", 0>>)>>
        \o [k \in 1..n |-> <<"exit", n + 1 - k>>]

(* C1, as stated: the request enters D1 first, then D2, ..., Dn, then the base
   transport, and the outcome comes back through Dn, ..., D1. *)
C1_FirstGivenIsOutermost ==
    \A b \in Builders :
        Started(b) => IsPrefix(Invocations(b), FirstFirstOrder(Len(Given(b))))

(* C1, amended: the request enters Dn first, then Dn-1, ..., D1, then the base
   transport; the response, error or panic comes back through D1, ..., Dn;
   each position runs the decorator given at that position; a call that
   reached the transport and ended has gone through all of them. *)
C1_LastGivenIsOutermost ==
    \A b \in Builders :
        Started(b) =>
            /\ IsPrefix(Invocations(b), LastFirstOrder(Len(Given(b))))
            /\ \A k \in 1..Len(do[b].events) :
                  do[b].events[k].index > 0 =>
                      do[b].events[k].f.w = Given(b)[do[b].events[k].index]
            /\ (Finished(b) /\ do[b].events # <<>>) =>
                  Invocations(b) = LastFirstOrder(Len(Given(b)))

(* C1 witness: a call through Logging, Trace, Timeout has ended *)
C1_Witness ==
    \E b \in Builders :
        /\ Finished(b)
        /\ Len(Given(b)) = 3
        /\ Given(b)[1].kind = "Logging"
        /\ Given(b)[2].kind = "Trace"
        /\ Given(b)[3].kind = "Timeout"
        /\ Len(Invocations(b)) = 8

(* C2: the context a Timeout decorator hands to its inner transport has a
   deadline, no later than the deadline of the context it received and no
   later than the hand-over time plus the configured duration, where a
   configured duration <= 0 counts as 5 seconds. *)
C2_TimeoutNeverLoosens ==
    \A b \in Builders : \A k \in 1..Len(do[b].stack) :
        LET f == do[b].stack[k]
        IN (f.w.kind = "Timeout" /\ f.phase = "called") =>
              /\ f.rOut.hasDeadline
              /\ f.rIn.hasDeadline => f.rOut.deadline <= f.rIn.deadline
              /\ \E d \in Durations :
                    /\ f.w = TimeoutTransport(d)
                    /\ f.rOut.deadline
                          <= f.handedAt + (IF d <= 0 THEN 5 ELSE d)

(* C2 witness: a Timeout of the default duration received a later deadline,
   the clock moved between its two readings, and it handed on a tightened
   context *)
C2_Witness ==
    \E b \in Builders : \E k \in 1..Len(do[b].stack) :
        LET f == do[b].stack[k]
        IN /\ f.w = TimeoutTransport(0)
           /\ f.phase = "called"
           /\ f.rIn.hasDeadline
           /\ f.rOut.deadline < f.rIn.deadline
           /\ f.handedAt > 0

(* C3, as stated: a Timeout decorator that received a context whose deadline
   is earlier than now + duration forwards that context untouched and returns
   what its inner transport returned; leaving it does not fault. *)
C3_EarlierDeadlineReturnsInner ==
    \A b \in Builders : \A k \in Exits(b) :
        LET e == do[b].events[k]
        IN (/\ e.kind = "Timeout"
            /\ e.f.rIn.hasDeadline
            /\ e.f.rIn.deadline < e.f.handedAt + e.f.w.duration
            /\ e.inner.kind # "panic") =>
              /\ e.f.rOut = e.f.rIn
              /\ e.out = e.inner

(* C4: when the request value is set and Encode fails, Do returns the encode
   error and no transport, composed or base, is built or invoked. *)
C4_EncodeFailureMakesNoCall ==
    \A b \in Builders :
        (/\ Started(b)
         /\ do[b].entry.req # NilValue
         /\ CodecEncode(buildCodec(do[b].entry), do[b].entry.req).err # "") =>
            /\ do[b].pc = "done"
            /\ do[b].result
                  = CodecEncode(buildCodec(do[b].entry), do[b].entry.req).err
            /\ do[b].events = <<>>
            /\ do[b].client = <<>>
            /\ builder[b].transportWrappers = Given(b) =>
                  builder[b].builds = do[b].entry.builds

(* C4 witness: Do on a builder with decorators and an unserializable request
   value has returned the encode error *)
C4_Witness ==
    \E b \in Builders :
        /\ do[b].pc = "done"
        /\ do[b].entry.req = Value("chan", "a", "")
        /\ do[b].result = "EncodingError"
        /\ Len(Given(b)) = MaxWrappers

(* C5: every Logging decorator in the chain writes its record only after its
   inner call has come back, never more than one, and exactly one by the time
   a Do call that reached the transport has ended, however it ended; nothing
   else writes a record. *)
C5_OneRecordAfterCompletion ==
    \A b \in Builders :
        /\ \A k \in 1..Len(do[b].events) :
              do[b].events[k].op = "log" =>
                  /\ Given(b)[do[b].events[k].index].kind = "Logging"
                  /\ \E j \in 1..(k - 1) :
                        /\ do[b].events[j].op = "exit"
                        /\ do[b].events[j].index = do[b].events[k].index - 1
        /\ \A i \in 1..Len(Given(b)) : Cardinality(LogsOf(b, i)) <= 1
        /\ (Finished(b) /\ do[b].events # <<>>) =>
              \A i \in 1..Len(Given(b)) :
                  Given(b)[i].kind = "Logging" => Cardinality(LogsOf(b, i)) = 1

(* C5 witness: a call through one Logging decorator ended with the deadline
   exceeded and one record *)
C5_Witness ==
    \E b \in Builders :
        /\ do[b].pc = "done"
        /\ do[b].result = "context deadline exceeded"
        /\ Cardinality({i \in 1..Len(Given(b)) : Given(b)[i].kind = "Logging"}) = 1
        /\ Cardinality({k \in 1..Len(do[b].events) : do[b].events[k].op = "log"}) = 1

(* C6, as stated, for the call of TestDo: a request with a body and a response
   target, sent with a context that has no deadline through
   WrapTransport(Logging, Trace, Timeout), whose response the base transport
   obtained, makes Do return nil with the payload decoded into the target. *)
C6_BodyReadableAfterDecorators ==
    \A b \in Builders :
        (/\ Finished(b)
         /\ Given(b) = <<LoggingTransport("demo"), TraceTransport("demo"),
                         TimeoutTransport(1)>>
         /\ do[b].entry.req = Value("req", "a", "")
         /\ do[b].entry.resp = "target"
         /\ do[b].ctx = Background
         /\ do[b].ret = Response(200, "json")) =>
            /\ do[b].pc = "done"
            /\ do[b].result = ""
            /\ builder[b].target = "json"

(* the steps of the Logging decorator's deferred function that read the
   package-level logger, and those that assign it *)
ReadsLogger(b) ==
    \/ BackAt(b, "Logging", "called")
    \/ BackAt(b, "Logging", "status")
    \/ BackAt(b, "Logging", "info")

WritesLogger(b) ==
    \/ BackAt(b, "Logging", "store")
    \/ BackAt(b, "Logging", "storeStatus")

(* C7, as stated: no step of one builder's Do call reads or writes a variable
   that the concurrent Do call of another builder writes. *)
C7_NoSharedState ==
    \A p \in Builders : \A q \in Builders \ {p} :
        ~((ReadsLogger(p) \/ WritesLogger(p)) /\ WritesLogger(q))

(* C8, as stated: after a change of the decorator list (or the creation of
   the builder) the composed transport is built at most once, however many
   Do calls follow. *)
C8_AtMostOneRebuild == \A b \in Builders : builder[b].builds <= 1

(* C9, as stated: every standard decorator passes on exactly the outcome its
   inner transport returned: the same error and no response, or the same
   response and no error. *)
C9_OutcomeUnchanged ==
    \A b \in Builders : \A k \in Exits(b) :
        LET e == do[b].events[k]
        IN (e.kind \in {"Trace", "Logging", "Timeout"} /\ e.inner.kind # "panic")
              => e.out = e.inner

(* C10, as stated: a span a Trace decorator started is ended once that
   decorator has returned. *)
C10_SpansEnded ==
    \A b \in Builders : \A sp \in do[b].spans :
        (\A k \in 1..Len(do[b].stack) : do[b].stack[k].span # sp)
            => sp \in do[b].ended

(* C11: a response the composed transport returned to Do has its body closed
   exactly once by the time Do has returned, with no response target, after a
   successful decode and after a failed one; the body is read once, by the
   decode step, when a target is set, and never otherwise. *)
C11_BodyClosedOnce ==
    \A b \in Builders :
        /\ do[b].closed <= 1
        /\ do[b].reads <= 1
        /\ ~Finished(b) => do[b].closed = 0 /\ do[b].reads = 0
        /\ (do[b].pc = "done" /\ do[b].ret.kind = "resp") =>
              /\ do[b].closed = 1
              /\ do[b].reads = IF do[b].entry.resp = "nil" THEN 0 ELSE 1

(* C11 witness: Do returned a decode error and the body is closed *)
C11_Witness ==
    \E b \in Builders :
        /\ do[b].pc = "done"
        /\ do[b].ret.kind = "resp"
        /\ do[b].result = "DecodingError"
        /\ do[b].closed = 1

(* the positions of the Timeout decorators in the list a call was given *)
TimeoutsGiven(b) == {i \in 1..Len(Given(b)) : Given(b)[i].kind = "Timeout"}

(* the network call of b came back only after the duration of its Timeout
   decorator had elapsed: the server had not answered within the timeout *)
AnsweredAfterTimeout(b) ==
    \E k \in Exits(b) :
        /\ do[b].events[k].kind = "Timeout"
        /\ do[b].answeredAt
              >= do[b].events[k].f.handedAt + do[b].events[k].f.w.duration

(* C12: a Do call with a context that has no deadline, through a chain with
   one Timeout decorator, to a server that has not answered when the timeout
   elapses, returns the error "context deadline exceeded": it does not
   return nil, and nothing is read from a body or decoded into the target. *)
C12_SlowServerTimesOut ==
    \A b \in Builders :
        (/\ Finished(b)
         /\ do[b].ctx = Background
         /\ Cardinality(TimeoutsGiven(b)) = 1
         /\ AnsweredAfterTimeout(b)) =>
            /\ do[b].pc = "done"
            /\ do[b].result = "context deadline exceeded"
            /\ do[b].reads = 0
            /\ builder[b].target = do[b].entry.target

(* C12 witness: the call of TestDo, WrapTransport(Logging, Trace,
   Timeout(1s)) with a request value and a response target, to a server that
   had not answered after 1s, has returned the deadline error *)
C12_Witness ==
    \E b \in Builders :
        /\ do[b].pc = "done"
        /\ do[b].ctx = Background
        /\ Given(b) = <<LoggingTransport("demo"), TraceTransport("demo"),
                        TimeoutTransport(1)>>
        /\ do[b].entry.req = Value("req", "a", "")
        /\ do[b].entry.resp = "target"
        /\ AnsweredAfterTimeout(b)
        /\ do[b].result = "context deadline exceeded"

(* the network call of b is in flight *)
InFlight(b) == b \in scenario.builders /\ do[b].pc = "base"

(* C13: for every decorator chain, the context of the request the base
   transport receives is the caller's context or derived from it: it is
   cancelled by the caller's cancel function and has a deadline no later
   than the caller's; so once the caller has cancelled its context or the
   caller's deadline has passed, the call in flight can only abort with that
   context's error, and a caller deadline earlier than the hand-over time
   plus the duration of every Timeout decorator is the deadline in force. *)
C13_CallerContextReachesBase ==
    \A b \in Builders :
        InFlight(b) =>
            /\ do[b].ctx.scopes \subseteq do[b].baseCtx.scopes
            /\ do[b].ctx.hasDeadline =>
                  /\ do[b].baseCtx.hasDeadline
                  /\ do[b].baseCtx.deadline <= do[b].ctx.deadline
            /\ CallerScope \in do[b].cancelled =>
                  BaseOutcomes(do[b].baseCtx, now, do[b].cancelled)
                      = {Failure("context canceled")}
            /\ (do[b].ctx.hasDeadline /\ do[b].ctx.deadline <= now
                    /\ CallerScope \notin do[b].cancelled) =>
                  BaseOutcomes(do[b].baseCtx, now, do[b].cancelled)
                      = {Failure("context deadline exceeded")}
            /\ (/\ do[b].ctx.hasDeadline
                /\ \A k \in 1..Len(do[b].stack) :
                      do[b].stack[k].w.kind = "Timeout" =>
                          do[b].ctx.deadline < do[b].stack[k].handedAt
                                                  + do[b].stack[k].w.duration)
                  => do[b].baseCtx.deadline = do[b].ctx.deadline

(* C13 witness: the caller cancelled its context while the call, sent through
   Trace, Logging and a Timeout that derived a tighter context, was in flight *)
C13_Witness ==
    \E b \in Builders :
        /\ InFlight(b)
        /\ CallerScope \in do[b].cancelled
        /\ {Given(b)[i].kind : i \in 1..Len(Given(b))}
              = {"Trace", "Logging", "Timeout"}
        /\ do[b].baseCtx.deadline < do[b].ctx.deadline

(* the codec Do is to use: the one given to Codec, else the JSON codec *)
ResolvedCodec(b) ==
    IF do[b].entry.codec = "nil" THEN "json" ELSE do[b].entry.codec

(* b's Do call has handed a request with a body to the base transport *)
BodySent(b) ==
    /\ do[b].pc \in {"base", "unwind", "done", "panicked"}
    /\ do[b].events # <<>>
    /\ do[b].entry.req # NilValue

(* the body the transport received is the Encode output of the codec given
   to Codec, or of the JSON codec when none was given; a response is decoded
   by the same codec *)
CodecUsed(b) ==
    /\ BodySent(b) =>
          /\ CodecEncode(ResolvedCodec(b), do[b].entry.req).err = ""
          /\ do[b].body = CodecEncode(ResolvedCodec(b), do[b].entry.req).data
    /\ (do[b].pc = "done" /\ do[b].ret.kind = "resp"
            /\ do[b].entry.resp # "nil") =>
          \E e \in {"", "context canceled", "context deadline exceeded"} :
              do[b].result = CodecDecode(ResolvedCodec(b), e, do[b].ret.payload)

(* C14, as stated: the body handed to the transport is the resolved codec's
   Encode output and decoding it with the same codec yields a value equal to
   the original, for every request value the codec can encode. *)
C14_RoundTripEqual ==
    \A b \in Builders :
        /\ CodecUsed(b)
        /\ BodySent(b) => do[b].gotReq = do[b].entry.req

(* C14, amended: the body handed to the transport is the resolved codec's
   Encode output, and decoding it with the same codec yields a value of the
   same type that equals the original in every field the codec writes (for
   the JSON codec: the exported fields), hence the original when the codec
   writes all of its fields; the same codec decodes the response. *)
C14_RoundTripOfEncodedFields ==
    \A b \in Builders :
        /\ CodecUsed(b)
        /\ BodySent(b) =>
              /\ do[b].gotReq.type = do[b].entry.req.type
              /\ do[b].gotReq.A = do[b].entry.req.A
              /\ (ResolvedCodec(b) = "custom" \/ do[b].entry.req.note = "") =>
                    do[b].gotReq = do[b].entry.req

(* C14 witness: a value with unexported state went through the caller's own
   codec and came back whole, and the response was decoded by that codec *)
C14_Witness ==
    \E b \in Builders :
        /\ do[b].pc = "done"
        /\ BodySent(b)
        /\ do[b].entry.codec = "custom"
        /\ do[b].entry.req = Value("unexported", "a", "n")
        /\ do[b].gotReq = do[b].entry.req
        /\ do[b].entry.resp = "target"
        /\ do[b].result = "CustomDecodingError"

(* the place of the first c in s, 0 when there is none *)
IndexOf(s, c) ==
    IF \E i \in 1..Len(s) : s[i] = c
    THEN CHOOSE i \in 1..Len(s) : s[i] = c /\ \A j \in 1..(i - 1) : s[j] # c
    ELSE 0

BeforeFirst(s, c) ==
    IF IndexOf(s, c) = 0 THEN s ELSE SubSeq(s, 1, IndexOf(s, c) - 1)

AfterFirst(s, c) ==
    IF IndexOf(s, c) = 0 THEN <<>> ELSE SubSeq(s, IndexOf(s, c) + 1, Len(s))

Count(s, c) == Cardinality({i \in 1..Len(s) : s[i] = c})

(* the query component of a URL: after the first ?, before the fragment *)
RawQuery(u) == AfterFirst(BeforeFirst(u, "#"), "?")

UnescapeChar(c) ==
    CASE c = "+" -> " "
      [] c = "%26" -> "&"
      [] c = "%3D" -> "="
      [] c = "%3F" -> "?"
      [] c = "%23" -> "#"
      [] c = "%2F" -> "/"
      [] c = "%2B" -> "+"
      [] OTHER -> c

QueryUnescape(s) == [i \in 1..Len(s) |-> UnescapeChar(s[i])]

(* the values a query carries for `key`, in order, as a server parses it *)
RECURSIVE ParsedValues(_, _)
ParsedValues(q, key) ==
    IF q = <<>> THEN <<>>
    ELSE LET pair == BeforeFirst(q, "&")
             rest == AfterFirst(q, "&")
         IN (IF QueryUnescape(BeforeFirst(pair, "=")) = <<key>>
             THEN <<QueryUnescape(AfterFirst(pair, "="))>> ELSE <<>>)
                \o ParsedValues(rest, key)

(* C15, as stated: Do requests base + url, followed by ? and the encoded
   query exactly when a query parameter was added; the result is one
   well-formed URL with one query component, which carries under each key
   the values added under it, in insertion order. *)
C15_SingleWellFormedURL ==
    \A b \in Builders :
        Started(b) =>
            LET e == do[b].entry
                u == do[b].url
            IN IF \A k \in DOMAIN e.values : e.values[k] = <<>>
               THEN u = e.baseURL \o e.url
               ELSE /\ IsPrefix(e.baseURL \o e.url \o <<"?">>, u)
                    /\ Count(u, "?") = 1
                    /\ \A k \in DOMAIN e.values :
                          ParsedValues(RawQuery(u), k) = e.values[k]

(* the fields of a record that have the key `key` *)
FieldsOf(fields, key) == SelectSeq(fields, LAMBDA x : x.key = key)

(* C16, as stated, for requests through one Logging decorator: the record
   written for a request carries that request's host, path, service name,
   start, elapsed time and trace identifier, each once, the status code if
   and only if a response was obtained for that request, and nothing else,
   so no field of an earlier request. *)
C16_RecordOfThisRequestOnly ==
    \A b \in Builders : \A k \in 1..Len(do[b].events) :
        LET e == do[b].events[k]
        IN (/\ e.op = "log"
            /\ Cardinality({i \in 1..Len(Given(b)) :
                               Given(b)[i].kind = "Logging"}) = 1) =>
              /\ Len(FieldsOf(e.fields, "statuscode"))
                    = IF do[b].events[k + 1].inner.kind = "resp" THEN 1 ELSE 0
              /\ Len(e.fields) = 6 + Len(FieldsOf(e.fields, "statuscode"))
              /\ FieldsOf(e.fields, "service") = <<Field("service", e.f.w.name, 0)>>
              /\ FieldsOf(e.fields, "start") = <<Field("start", "", e.f.start)>>
              /\ FieldsOf(e.fields, "trace_id")
                    = <<Field("trace_id", "", traceIDFromContext(e.f.rIn))>>
              /\ Len(FieldsOf(e.fields, "elapsed")) = 1

(* b's Do call has built its client *)
ClientBuilt(b) ==
    \/ do[b].pc \in {"send", "base", "unwind"}
    \/ Finished(b) /\ do[b].events # <<>>

(* C17: every Do call on a builder runs through the transport composed from
   all the decorators passed to WrapTransport up to that call, each once in
   the order passed, the last passed outermost (the base transport alone
   when none was passed), also when decorators were added after an earlier
   Do call had built and cached a transport. *)
C17_TransportFromAllDecorators ==
    \A b \in Builders :
        ClientBuilt(b) =>
            /\ Len(do[b].client) = Len(Given(b))
            /\ \A k \in 1..Len(Given(b)) :
                  /\ do[b].client[k].index = Len(Given(b)) + 1 - k
                  /\ do[b].client[k].w = Given(b)[Len(Given(b)) + 1 - k]

(* C17 witness: a second Do call, made after WrapTransport added a decorator
   to the one the first call ran through, runs through both *)
C17_Witness ==
    \E b \in Builders :
        /\ ClientBuilt(b)
        /\ do[b].entry.calls = 1
        /\ Len(do[b].entry.cachedTransport) = 1
        /\ Len(Given(b)) = 2
        /\ Len(do[b].client) = 2

(* the trace identifiers a record carries *)
LoggedTraceIDs(e) ==
    {FieldsOf(e.fields, "trace_id")[n].num :
        n \in 1..Len(FieldsOf(e.fields, "trace_id"))}

(* the trace identifiers of the spans started, in this call, by the Trace
   decorators outside position i *)
OuterSpanTraceIDs(b, i) ==
    {do[b].events[k].f.rOut.otelTrace : k \in
        {k \in 1..Len(do[b].events) :
            /\ do[b].events[k].op = "enter"
            /\ do[b].events[k].kind = "Trace"
            /\ do[b].events[k].index > i}}

(* C18, as stated: the trace identifier in the record of a Logging decorator
   is the trace identifier of the span that the Trace decorator outside it
   started for this request, and the empty string (0) when there is no Trace
   decorator outside it. *)
C18_LoggedTraceIDIsSpanTraceID ==
    \A b \in Builders : \A k \in 1..Len(do[b].events) :
        LET e == do[b].events[k]
        IN e.op = "log" =>
              LoggedTraceIDs(e) =
                  IF OuterSpanTraceIDs(b, e.index) = {} THEN {0}
                  ELSE OuterSpanTraceIDs(b, e.index)

(* what the caller configured on a builder *)
Configuration(bd) ==
    [url |-> bd.url, baseURL |-> bd.baseURL, values |-> bd.values,
     header |-> bd.header, transportWrappers |-> bd.transportWrappers]

(* C19, as stated: during and after a Do call the builder's URL, base URL,
   query parameters, header collection and decorator list are what they were
   when the call began, for every decorator chain. *)
C19_DoLeavesConfiguration ==
    \A b \in Builders :
        Started(b) => Configuration(builder[b]) = Configuration(do[b].entry)

====
